---- MODULE Spec2Model ----
(***************************************************************************)
(* Model of src/common.rs of nvmd-command: the lazily initialised,         *)
(* process-wide values NVMD_PATH, VERSION, DEFAULT_INSTALLTION_PATH,       *)
(* INSTALLTION_PATH, NPM_PREFIX, ENV_PATH and BINARY_ENV_PATH, and the     *)
(* functions that compute them.                                            *)
(*                                                                         *)
(* Strings, paths and OS strings are sequences of tokens.  A token stands  *)
(* for one character or for a run of characters that no operation looks    *)
(* into ("versions", ".nvmd", "18").  The tokens the code does look at     *)
(* are kept apart: "/" (the path separator), ":" (the PATH list            *)
(* separator), and the JSON punctuation.  The model is that of the unix    *)
(* build (cfg!(unix) is true).                                             *)
(***************************************************************************)
EXTENDS Naturals, Sequences, FiniteSets, TLC

VARIABLES
    home,       \* dirs::home_dir(): [some, path]
    cwd,        \* env::current_dir(): [ok, path]
    fs,         \* the file system: absolute path -> [kind, s]
    PATH,       \* env::var_os("PATH"): [some, s]
    spawnOk,    \* whether Command::spawn of npm succeeds
    npmOut,     \* what BufReader::lines yields on the child's stdout
    threads,    \* the threads of the process
    lazy,       \* the lazy_static cells: static -> [st, v]
    stack,      \* per thread: the statics whose initializer it is running
    tstate,     \* per thread: "run" or "panicked"
    child,      \* the npm child as built by get_npm_prefix: [built, spawned, path]
    initCount   \* per static: how many times its initializer was started

envVars == <<home, cwd, fs, PATH, spawnOk, npmOut, threads>>
progVars == <<lazy, stack, tstate, child, initCount>>
vars == <<home, cwd, fs, PATH, spawnOk, npmOut, threads,
          lazy, stack, tstate, child, initCount>>

(***************************************************************************)
(* Bounds of the model.                                                    *)
(***************************************************************************)
MaxLines == 3
MaxPathEntries == 2
NumThreads == 2

(***************************************************************************)
(* Strings and paths.                                                      *)
(***************************************************************************)
Empty == <<>>
MAIN_SEPARATOR == "/"
LIST_SEPARATOR == ":"

is_absolute(p) == p # Empty /\ Head(p) = MAIN_SEPARATOR

\* PathBuf::push on unix: an absolute argument replaces the path; otherwise a
\* separator is added when the path is non-empty and does not end in one.
push(p, s) ==
    IF is_absolute(s) THEN s
    ELSE IF p # Empty /\ p[Len(p)] # MAIN_SEPARATOR THEN p \o <<MAIN_SEPARATOR>> \o s
    ELSE p \o s

Contains(s, c) == \E i \in 1..Len(s) : s[i] = c

\* Index of the first c in s at or after i, or Len(s)+1.
RECURSIVE Find(_, _, _)
Find(s, c, i) ==
    IF i > Len(s) THEN Len(s) + 1
    ELSE IF s[i] = c THEN i
    ELSE Find(s, c, i + 1)

\* env::split_paths on unix: the pieces between the ':' separators, empty
\* pieces included (an empty string is one empty piece).
RECURSIVE split_paths(_)
split_paths(s) ==
    LET k == Find(s, LIST_SEPARATOR, 1) IN
    IF k > Len(s) THEN <<s>>
    ELSE <<SubSeq(s, 1, k - 1)>> \o split_paths(SubSeq(s, k + 1, Len(s)))

RECURSIVE Concat(_)
Concat(paths) ==
    IF paths = <<>> THEN Empty
    ELSE IF Len(paths) = 1 THEN paths[1]
    ELSE paths[1] \o <<LIST_SEPARATOR>> \o Concat(Tail(paths))

\* env::join_paths on unix: an error when an entry contains the separator.
join_paths(paths) ==
    IF \E i \in 1..Len(paths) : Contains(paths[i], LIST_SEPARATOR)
    THEN [ok |-> FALSE, s |-> Empty]
    ELSE [ok |-> TRUE, s |-> Concat(paths)]

\* A slip: the directory is appended, not inserted first.
insert_last(paths, x) == paths \o <<x>>

\* Vec::insert(0, x)
insert_first(paths, x) == <<x>> \o paths

(***************************************************************************)
(* The file system.  A relative path is resolved by the operating system   *)
(* against the working directory; with no working directory (it was        *)
(* removed) a relative path names nothing.  The empty path names nothing.  *)
(***************************************************************************)
NoEntry == [kind |-> "none", s |-> Empty]
DirEntry == [kind |-> "dir", s |-> Empty]
FileEntry(content) == [kind |-> "file", s |-> content]

Resolve(p) ==
    IF p = Empty THEN Empty
    ELSE IF is_absolute(p) THEN p
    ELSE IF cwd.ok THEN push(cwd.path, p)
    ELSE Empty

Lookup(p) == IF Resolve(p) \in DOMAIN fs THEN fs[Resolve(p)] ELSE NoEntry

\* Path::exists
exists(p) == Lookup(p).kind # "none"
\* Path::is_dir
is_dir(p) == Lookup(p).kind = "dir"
\* fs_extra::file::read_to_string: an error unless the path is a file.
read_to_string(p) ==
    IF Lookup(p).kind = "file" THEN [ok |-> TRUE, s |-> Lookup(p).s]
    ELSE [ok |-> FALSE, s |-> Empty]

(***************************************************************************)
(* serde_json: from_str into a Value, and the Value accessors the code     *)
(* uses.  A document is a sequence of tokens: the punctuation { } [ ] : ,  *)
(* the quote, a blank, the literals null, true and false, the digit 3, and *)
(* any other token as a character of a string.                             *)
(***************************************************************************)
QUOTE == "\""
JWhitespace == {" "}
JDigits == {"3"}

JV(t, s, m) == [t |-> t, s |-> s, m |-> m]
JNull == JV("null", Empty, <<>>)
JFail == [ok |-> FALSE, v |-> JNull, n |-> 0]
JOk(v, n) == [ok |-> TRUE, v |-> v, n |-> n]

RECURSIVE skip_ws(_, _)
skip_ws(s, i) ==
    IF i <= Len(s) /\ s[i] \in JWhitespace THEN skip_ws(s, i + 1) ELSE i

\* s[i] is the opening quote; there are no escapes among the tokens.
parse_string(s, i) ==
    LET k == Find(s, QUOTE, i + 1) IN
    IF k > Len(s) THEN JFail
    ELSE JOk(JV("str", SubSeq(s, i + 1, k - 1), <<>>), k + 1)

RECURSIVE parse_value(_, _)
RECURSIVE parse_elems(_, _, _)
RECURSIVE parse_members(_, _, _)

parse_value(s, i) ==
    LET j == skip_ws(s, i) IN
    IF j > Len(s) THEN JFail
    ELSE IF s[j] = "null" THEN JOk(JNull, j + 1)
    ELSE IF s[j] \in {"true", "false"} THEN JOk(JV("bool", <<s[j]>>, <<>>), j + 1)
    ELSE IF s[j] \in JDigits THEN JOk(JV("num", <<s[j]>>, <<>>), j + 1)
    ELSE IF s[j] = QUOTE THEN parse_string(s, j)
    ELSE IF s[j] = "[" THEN
        LET k == skip_ws(s, j + 1) IN
        IF k <= Len(s) /\ s[k] = "]" THEN JOk(JV("arr", Empty, <<>>), k + 1)
        ELSE parse_elems(s, k, <<>>)
    ELSE IF s[j] = "{" THEN
        LET k == skip_ws(s, j + 1) IN
        IF k <= Len(s) /\ s[k] = "}" THEN JOk(JV("obj", Empty, <<>>), k + 1)
        ELSE parse_members(s, k, <<>>)
    ELSE JFail

parse_elems(s, i, acc) ==
    LET r == parse_value(s, i)
        j == skip_ws(s, r.n)
    IN  IF ~r.ok \/ j > Len(s) THEN JFail
        ELSE IF s[j] = "," THEN parse_elems(s, j + 1, Append(acc, r.v))
        ELSE IF s[j] = "]" THEN JOk(JV("arr", Empty, Append(acc, r.v)), j + 1)
        ELSE JFail

parse_members(s, i, acc) ==
    LET j == skip_ws(s, i)
        key == parse_string(s, j)
        k == skip_ws(s, key.n)
        r == parse_value(s, k + 1)
        m == skip_ws(s, r.n)
    IN  IF j > Len(s) \/ s[j] # QUOTE THEN JFail
        ELSE IF ~key.ok \/ k > Len(s) \/ s[k] # ":" THEN JFail
        ELSE IF ~r.ok \/ m > Len(s) THEN JFail
        ELSE IF s[m] = "," THEN parse_members(s, m + 1, Append(acc, <<key.v.s, r.v>>))
        ELSE IF s[m] = "}" THEN JOk(JV("obj", Empty, Append(acc, <<key.v.s, r.v>>)), m + 1)
        ELSE JFail

\* serde_json::from_str: one value, then nothing but whitespace.
from_str(s) ==
    LET r == parse_value(s, 1) IN
    IF ~r.ok THEN [ok |-> FALSE, v |-> JNull]
    ELSE IF skip_ws(s, r.n) <= Len(s) THEN [ok |-> FALSE, v |-> JNull]
    ELSE [ok |-> TRUE, v |-> r.v]

is_null(v) == v.t = "null"
is_object(v) == v.t = "obj"
is_string(v) == v.t = "str"
as_str(v) == v.s

\* Value's Index<&str>: the member of an object (the last one of that name:
\* a later member replaces an earlier), Null for anything else.
Index(v, key) ==
    LET hits == IF is_object(v) THEN {i \in 1..Len(v.m) : v.m[i][1] = key} ELSE {} IN
    IF hits = {} THEN JNull
    ELSE v.m[CHOOSE i \in hits : \A k \in hits : k <= i][2]

(***************************************************************************)
(* The lazy_static cells.  A function that reads a static whose value is   *)
(* not there yet cannot go on: it yields Need(static), the dereference     *)
(* that blocks it.  Otherwise it returns a value or panics.                *)
(***************************************************************************)
Statics == {"NVMD_PATH", "VERSION", "DEFAULT_INSTALLTION_PATH", "INSTALLTION_PATH",
            "NPM_PREFIX", "ENV_PATH", "BINARY_ENV_PATH"}

Need(d) == [k |-> "need", d |-> d, v |-> Empty]
Ret(v) == [k |-> "ret", d |-> "", v |-> v]
Panic == [k |-> "panic", d |-> "", v |-> Empty]

Ready(l) == lazy[l].st = "done"
Val(l) == lazy[l].v

\* dirs::home_dir().ok_or(NotFound)?, then push(".nvmd")
default_home_dir ==
    IF home.some THEN [ok |-> TRUE, p |-> push(home.path, <<".nvmd">>)]
    ELSE [ok |-> FALSE, p |-> Empty]

get_nvmd_path ==
    IF default_home_dir.ok THEN Ret(default_home_dir.p) ELSE Ret(Empty)

\* A slip: the global default is consulted before the project file.
get_version_default_first ==
    LET nvmdrc == push(IF cwd.ok THEN cwd.path ELSE Empty, <<".nvmdrc">>)
        project_version ==
            IF read_to_string(nvmdrc).ok THEN read_to_string(nvmdrc).s ELSE Empty
    IN  IF ~Ready("NVMD_PATH") THEN Need("NVMD_PATH")
        ELSE LET default_path == push(Val("NVMD_PATH"), <<"default">>) IN
             IF read_to_string(default_path).ok /\ read_to_string(default_path).s # Empty
             THEN Ret(read_to_string(default_path).s)
             ELSE Ret(project_version)

get_version ==
    LET nvmdrc == push(IF cwd.ok THEN cwd.path ELSE Empty, <<".nvmdrc">>)
        project_version ==
            IF read_to_string(nvmdrc).ok THEN read_to_string(nvmdrc).s ELSE Empty
    IN  IF project_version # Empty THEN Ret(project_version)
        ELSE IF ~Ready("NVMD_PATH") THEN Need("NVMD_PATH")
        ELSE LET default_path == push(Val("NVMD_PATH"), <<"default">>) IN
             IF read_to_string(default_path).ok
             THEN Ret(read_to_string(default_path).s)
             ELSE Ret(Empty)

get_default_installtion_path ==
    IF ~Ready("NVMD_PATH") THEN Need("NVMD_PATH")
    ELSE Ret(push(Val("NVMD_PATH"), <<"versions">>))

\* return DEFAULT_INSTALLTION_PATH.clone()
default_installtion ==
    IF ~Ready("DEFAULT_INSTALLTION_PATH") THEN Need("DEFAULT_INSTALLTION_PATH")
    ELSE Ret(Val("DEFAULT_INSTALLTION_PATH"))

get_installtion_path ==
    IF ~Ready("NVMD_PATH") THEN Need("NVMD_PATH")
    ELSE
    LET setting_path == push(Val("NVMD_PATH"), <<"setting.json">>)
        setting_content ==
            IF read_to_string(setting_path).ok THEN read_to_string(setting_path).s
            ELSE Empty
        parsed == from_str(setting_content)
        json_obj == parsed.v
    IN  IF setting_content = Empty THEN default_installtion
        ELSE IF ~parsed.ok THEN Panic
        ELSE IF is_null(json_obj) \/ ~is_object(json_obj) THEN default_installtion
        ELSE IF is_null(Index(json_obj, <<"directory">>))
                \/ ~is_string(Index(json_obj, <<"directory">>))
             THEN default_installtion
        ELSE Ret(as_str(Index(json_obj, <<"directory">>)))

cfg_unix == TRUE

get_bin_path ==
    IF ~Ready("INSTALLTION_PATH") THEN Need("INSTALLTION_PATH")
    ELSE IF ~Ready("VERSION") THEN Need("VERSION")
    ELSE LET nvmd_path == push(Val("INSTALLTION_PATH"), Val("VERSION")) IN
         Ret(IF cfg_unix THEN push(nvmd_path, <<"bin">>) ELSE nvmd_path)

get_binary_bin_path ==
    IF ~Ready("NPM_PREFIX") THEN Need("NPM_PREFIX")
    ELSE Ret(IF cfg_unix THEN push(Val("NPM_PREFIX"), <<"bin">>) ELSE Val("NPM_PREFIX"))

\* A slip: the check that bin_path exists is left out.
compose_path_unchecked(bin_path) ==
    IF PATH.some THEN
        LET paths == insert_first(split_paths(PATH.s), bin_path) IN
        IF join_paths(paths).ok THEN join_paths(paths).s ELSE Empty
    ELSE bin_path

\* The tail of get_env_path, once bin_path is known.
compose_path(bin_path) ==
    IF ~exists(bin_path) THEN Empty
    ELSE IF PATH.some THEN
        LET paths == insert_first(split_paths(PATH.s), bin_path) IN
        IF join_paths(paths).ok THEN join_paths(paths).s ELSE Empty
    ELSE bin_path

get_env_path(binary) ==
    IF ~Ready("VERSION") THEN Need("VERSION")
    ELSE IF Val("VERSION") = Empty THEN Ret(Empty)
    ELSE LET bin_path == IF binary THEN get_binary_bin_path ELSE get_bin_path IN
         IF bin_path.k = "need" THEN bin_path
         ELSE Ret(compose_path(bin_path.v))

\* The loop of get_npm_prefix over the lines: a line that cannot be read
\* (line.unwrap() of an Err: the bytes are not UTF-8) panics; a line that
\* names a directory replaces the prefix.
RECURSIVE scan_lines(_, _)
scan_lines(lines, perfix) ==
    IF lines = <<>> THEN Ret(perfix)
    ELSE IF ~Head(lines).ok THEN Panic
    ELSE IF is_dir(Head(lines).s) THEN scan_lines(Tail(lines), Head(lines).s)
    ELSE scan_lines(Tail(lines), perfix)

get_npm_prefix ==
    IF ~Ready("ENV_PATH") THEN Need("ENV_PATH")
    ELSE IF ~spawnOk THEN Panic
    ELSE scan_lines(npmOut, Empty)

Eval(l) ==
    CASE l = "NVMD_PATH" -> get_nvmd_path
      [] l = "VERSION" -> get_version
      [] l = "DEFAULT_INSTALLTION_PATH" -> get_default_installtion_path
      [] l = "INSTALLTION_PATH" -> get_installtion_path
      [] l = "NPM_PREFIX" -> get_npm_prefix
      [] l = "ENV_PATH" -> get_env_path(FALSE)
      [] l = "BINARY_ENV_PATH" -> get_env_path(TRUE)

(***************************************************************************)
(* Threads.  A panic unwinds the thread: the Once of every initializer it  *)
(* was running is poisoned.                                                *)
(***************************************************************************)
Threads == 1..NumThreads
Top(t) == stack[t][Len(stack[t])]
OnStack(t, l) == \E i \in 1..Len(stack[t]) : stack[t][i] = l

\* A slip: a check without the lock, which a second caller passes while the
\* first is still running the initializer.
once_claimable_racy(l) == lazy[l].st \in {"uninit", "running"}

\* Once::call_once lets exactly one caller in: the one that finds it new.
once_claimable(l) == lazy[l].st = "uninit"

Unwind(t) ==
    /\ lazy' = [l \in Statics |->
                  IF OnStack(t, l) THEN [st |-> "poisoned", v |-> Empty] ELSE lazy[l]]
    /\ stack' = [stack EXCEPT ![t] = <<>>]
    /\ tstate' = [tstate EXCEPT ![t] = "panicked"]

\* Deref of a static: by a caller outside (the thread runs no initializer), or
\* by the initializer the thread is running, at the static it needs next.  It
\* runs the initializer if the Once is new, waits while another thread runs
\* it, panics if the Once is poisoned, and otherwise reads the value.
Deref(t, l) ==
    /\ t \in threads
    /\ tstate[t] = "run"
    /\ IF stack[t] = <<>> THEN TRUE
       ELSE Eval(Top(t)).k = "need" /\ Eval(Top(t)).d = l
    /\ UNCHANGED <<envVars, child>>
    /\ IF once_claimable(l) THEN
            /\ lazy' = [lazy EXCEPT ![l] = [st |-> "running", v |-> Empty]]
            /\ stack' = [stack EXCEPT ![t] = Append(@, l)]
            /\ initCount' = [initCount EXCEPT ![l] = @ + 1]
            /\ UNCHANGED tstate
       ELSE IF lazy[l].st = "done" THEN
            UNCHANGED <<lazy, stack, tstate, initCount>>
       ELSE IF lazy[l].st = "poisoned" THEN
            /\ Unwind(t)
            /\ UNCHANGED initCount
       ELSE FALSE

\* The initializer of static l, run by thread t, comes to its end.
Finish(t, l, r) ==
    /\ t \in threads
    /\ tstate[t] = "run"
    /\ stack[t] # <<>>
    /\ Top(t) = l
    /\ r.k # "need"
    /\ IF r.k = "ret" THEN
            /\ lazy' = [lazy EXCEPT ![l] = [st |-> "done", v |-> r.v]]
            /\ stack' = [stack EXCEPT ![t] = SubSeq(@, 1, Len(@) - 1)]
            /\ UNCHANGED tstate
       ELSE Unwind(t)
    /\ UNCHANGED <<envVars, initCount>>

NVMD_PATH(t) ==
    Finish(t, "NVMD_PATH", get_nvmd_path) /\ UNCHANGED child
VERSION(t) ==
    Finish(t, "VERSION", get_version) /\ UNCHANGED child
DEFAULT_INSTALLTION_PATH(t) ==
    Finish(t, "DEFAULT_INSTALLTION_PATH", get_default_installtion_path) /\ UNCHANGED child
INSTALLTION_PATH(t) ==
    Finish(t, "INSTALLTION_PATH", get_installtion_path) /\ UNCHANGED child
\* The command is built with PATH set to ENV_PATH, then spawned.
NPM_PREFIX(t) ==
    /\ Finish(t, "NPM_PREFIX", get_npm_prefix)
    /\ child' = [built |-> TRUE, spawned |-> spawnOk, path |-> Val("ENV_PATH")]
ENV_PATH(t) ==
    Finish(t, "ENV_PATH", get_env_path(FALSE)) /\ UNCHANGED child
BINARY_ENV_PATH(t) ==
    Finish(t, "BINARY_ENV_PATH", get_env_path(TRUE)) /\ UNCHANGED child

Next ==
    \E t \in Threads :
        \/ \E l \in Statics : Deref(t, l)
        \/ NVMD_PATH(t)
        \/ VERSION(t)
        \/ DEFAULT_INSTALLTION_PATH(t)
        \/ INSTALLTION_PATH(t)
        \/ NPM_PREFIX(t)
        \/ ENV_PATH(t)
        \/ BINARY_ENV_PATH(t)

(***************************************************************************)
(* The environments the program is run in.                                 *)
(***************************************************************************)
HomePath == <<"/", "h">>
CwdPath == <<"/", "w">>
NvmdDir == push(HomePath, <<".nvmd">>)
U == <<"/", "u">>
B == <<"/", "b">>
D == <<"/", "d">>
Noise == <<"npm", " ", "notice">>
V1 == <<"18">>
V2 == <<"20">>
V3 == <<"x", ":", "y">>

HomeSome == [some |-> TRUE, path |-> HomePath]
HomeNone == [some |-> FALSE, path |-> Empty]
CwdOk == [ok |-> TRUE, path |-> CwdPath]
CwdErr == [ok |-> FALSE, path |-> Empty]

\* Settings documents.
DocMember(key, val) == <<QUOTE>> \o key \o <<QUOTE, ":">> \o val
DocStr(s) == <<QUOTE>> \o s \o <<QUOTE>>
DocObj(members) == <<"{">> \o members \o <<"}">>
DocDirectory(d) == DocObj(DocMember(<<"directory">>, DocStr(d)))

InvalidJsonDocs ==
    { <<"{">>, <<" ">>, <<"n", "o">>,
      DocDirectory(D) \o <<"x">>,
      <<"{", QUOTE, "directory", QUOTE, "}">>,
      <<"[", "3", ",", "]">> }
NonObjectDocs == { <<"null">>, <<"3">>, <<"[", "]">>, <<"[", "3", ",", "null", "]">>, DocStr(D) }
NoDirectoryDocs == { DocObj(Empty), <<" ">> \o DocObj(DocMember(<<"other">>, DocStr(D))) \o <<" ">> }
DirectoryNotStringDocs ==
    { DocObj(DocMember(<<"directory">>, <<"null">>)),
      DocObj(DocMember(<<"directory">>, <<"3">>)),
      DocObj(DocMember(<<"directory">>, <<"[", "]">>)),
      DocObj(DocMember(<<"directory">>, DocStr(D)) \o <<",">>
             \o DocMember(<<"directory">>, <<"true">>)) }
ValidDocs == { DocDirectory(D), DocDirectory(Empty),
               DocObj(DocMember(<<"other">>, <<"3">>) \o <<",">>
                      \o DocMember(<<"directory">>, DocStr(D))) }

\* The directories a toolchain's executables can be in, as absolute paths:
\* under <home>/.nvmd/versions, under the directory of the settings, and,
\* for a relative installation path, under the working directory.
ToolchainBins ==
    { push(push(r, v), <<"bin">>) :
        r \in { push(NvmdDir, <<"versions">>), D, push(CwdPath, <<"versions">>), CwdPath },
        v \in { V1, V2, V3 } }

MkFs(nvmdrc, dflt, cwdDflt, setting, tcBin, b, ubin, wbin) ==
    (push(CwdPath, <<".nvmdrc">>) :> nvmdrc)
    @@ (push(NvmdDir, <<"default">>) :> dflt)
    @@ (push(CwdPath, <<"default">>) :> cwdDflt)
    @@ (push(NvmdDir, <<"setting.json">>) :> setting)
    @@ (push(CwdPath, <<"setting.json">>) :> setting)
    @@ [p \in ToolchainBins |-> tcBin]
    @@ (U :> DirEntry)
    @@ (B :> b)
    @@ (push(U, <<"bin">>) :> ubin)
    @@ (push(B, <<"bin">>) :> DirEntry)
    @@ (push(CwdPath, <<"bin">>) :> wbin)

\* What BufReader::lines yields: a line, or an error for bytes that are not UTF-8.
Line(s) == [ok |-> TRUE, s |-> s]
BadLine == [ok |-> FALSE, s |-> Empty]
LineItems == { Line(Noise), Line(U), Line(B), BadLine }
SeqsUpTo(S, n) == UNION { [1..k -> S] : k \in 0..n }

PathAbsent == [some |-> FALSE, s |-> Empty]
PathEntries == { Empty, U, push(B, <<"bin">>) }
PathValues ==
    { [some |-> TRUE, s |-> Concat(es)] : es \in SeqsUpTo(PathEntries, MaxPathEntries) \ {<<>>} }

InitProg ==
    /\ lazy = [l \in Statics |-> [st |-> "uninit", v |-> Empty]]
    /\ stack = [t \in Threads |-> <<>>]
    /\ tstate = [t \in Threads |-> "run"]
    /\ child = [built |-> FALSE, spawned |-> FALSE, path |-> Empty]
    /\ initCount = [l \in Statics |-> 0]

\* The prefix probe: what npm prints and which of the paths it names exist.
Init ==
    /\ home = HomeSome
    /\ cwd = CwdOk
    /\ fs \in { MkFs(nvmdrc, NoEntry, NoEntry, NoEntry, tcBin, b, ubin, wbin) :
                  nvmdrc \in {FileEntry(V1)}, tcBin \in {NoEntry, DirEntry},
                  b \in {NoEntry, DirEntry},
                  ubin \in {NoEntry, DirEntry}, wbin \in {NoEntry, DirEntry} }
    /\ PATH = [some |-> TRUE, s |-> U]
    /\ spawnOk \in BOOLEAN
    /\ npmOut \in SeqsUpTo(LineItems, MaxLines)
    /\ threads = {1}
    /\ InitProg

Spec == Init /\ [][Next]_vars

\* The settings document.
InitSettings ==
    /\ home \in {HomeSome, HomeNone}
    /\ cwd = CwdOk
    /\ fs \in { MkFs(FileEntry(V1), NoEntry, NoEntry, setting, DirEntry, NoEntry, DirEntry, NoEntry) :
                  setting \in {NoEntry, DirEntry, FileEntry(Empty)}
                     \cup { FileEntry(d) : d \in InvalidJsonDocs \cup NonObjectDocs
                              \cup NoDirectoryDocs \cup DirectoryNotStringDocs \cup ValidDocs } }
    /\ PATH = [some |-> TRUE, s |-> U]
    /\ spawnOk \in BOOLEAN
    /\ npmOut = <<Line(U)>>
    /\ threads = {1}
    /\ InitProg

SpecSettings == InitSettings /\ [][Next]_vars

\* The version files.
VersionFiles == { NoEntry, DirEntry, FileEntry(Empty), FileEntry(V1), FileEntry(V2) }

InitVersion ==
    /\ home \in {HomeSome, HomeNone}
    /\ cwd \in {CwdOk, CwdErr}
    /\ fs \in { MkFs(nvmdrc, dflt, cwdDflt, NoEntry, DirEntry, NoEntry, DirEntry, NoEntry) :
                  nvmdrc \in VersionFiles, dflt \in VersionFiles,
                  cwdDflt \in {NoEntry, FileEntry(V2)} }
    /\ PATH = [some |-> TRUE, s |-> U]
    /\ spawnOk \in BOOLEAN
    /\ npmOut = <<Line(U)>>
    /\ threads = {1}
    /\ InitProg

SpecVersion == InitVersion /\ [][Next]_vars

\* The inherited PATH and the bin directories.
InitPath ==
    /\ home = HomeSome
    /\ cwd = CwdOk
    /\ fs \in { MkFs(nvmdrc, NoEntry, NoEntry, setting, tcBin, NoEntry, ubin, wbin) :
                  nvmdrc \in {NoEntry, FileEntry(V1), FileEntry(V3)},
                  setting \in {NoEntry, FileEntry(DocDirectory(D))},
                  tcBin \in {NoEntry, DirEntry},
                  ubin \in {NoEntry, DirEntry}, wbin \in {NoEntry} }
    /\ PATH \in {PathAbsent} \cup PathValues
    /\ \E probe \in { <<TRUE, <<Line(U)>> >>, <<TRUE, <<>> >>, <<FALSE, <<>> >> } :
         spawnOk = probe[1] /\ npmOut = probe[2]
    /\ threads = {1}
    /\ InitProg

SpecPath == InitPath /\ [][Next]_vars

\* Several threads.
InitThreads ==
    /\ home = HomeSome
    /\ cwd = CwdOk
    /\ fs \in { MkFs(FileEntry(V1), NoEntry, NoEntry, setting, DirEntry, NoEntry, DirEntry, NoEntry) :
                  setting \in {NoEntry, FileEntry(<<"{">>)} }
    /\ PATH = [some |-> TRUE, s |-> U]
    /\ spawnOk \in BOOLEAN
    /\ npmOut = <<Line(Noise), Line(U)>>
    /\ threads = Threads
    /\ InitProg

SpecThreads == InitThreads /\ [][Next]_vars

(***************************************************************************)
(* The claims.                                                             *)
(***************************************************************************)
Settled(l) == lazy[l].st \in {"done", "poisoned"}
Done(l, v) == lazy[l] = [st |-> "done", v |-> v]

SettingFile == fs[push(NvmdDir, <<"setting.json">>)]
NvmdrcFile == fs[push(CwdPath, <<".nvmdrc">>)]
ExpectedDefaultRoot ==
    IF home.some THEN HomePath \o <<"/", ".nvmd", "/", "versions">> ELSE <<"versions">>

MalformedSetting ==
    \/ SettingFile.kind # "file"
    \/ SettingFile.s = Empty
    \/ SettingFile.s \in InvalidJsonDocs \cup NonObjectDocs \cup NoDirectoryDocs
                          \cup DirectoryNotStringDocs

\* C1: for every malformed settings document (missing, empty, not JSON, not an
\* object, no `directory`, `directory` not a string), resolving the
\* installation root does not abort and yields exactly <home>/versions.
C1_MalformedSettingsYieldDefault ==
    (home.some /\ MalformedSetting /\ Settled("INSTALLTION_PATH"))
        => Done("INSTALLTION_PATH", ExpectedDefaultRoot)

\* The part of C1 the code keeps: every malformed document other than one that
\* is not JSON yields <home>/versions.
SettingsLemma ==
    (MalformedSetting /\ Settled("INSTALLTION_PATH"))
        => IF SettingFile.kind = "file" /\ SettingFile.s \in InvalidJsonDocs
           THEN lazy["INSTALLTION_PATH"].st = "poisoned"
           ELSE Done("INSTALLTION_PATH", ExpectedDefaultRoot)

\* C8: whenever the home directory is resolvable, the installation root is a
\* non-empty path, for every content of the settings document.
C8_InstallationRootNonEmpty ==
    (home.some /\ lazy["INSTALLTION_PATH"].st = "done")
        => lazy["INSTALLTION_PATH"].v # Empty

\* What the version files hold, read off the file system.
ProjectVersion ==
    IF cwd.ok /\ NvmdrcFile.kind = "file" THEN NvmdrcFile.s ELSE Empty
GlobalDefaultFile ==
    IF home.some THEN fs[HomePath \o <<"/", ".nvmd", "/", "default">>]
    ELSE IF cwd.ok THEN fs[CwdPath \o <<"/", "default">>]
    ELSE NoEntry
GlobalVersion ==
    IF GlobalDefaultFile.kind = "file" THEN GlobalDefaultFile.s ELSE Empty

\* C2: the selected version is the content of <cwd>/.nvmdrc if that file is
\* readable and not empty, whatever <home>/default holds; otherwise the content
\* of <home>/default if readable; otherwise empty.  (With no home directory
\* the path <home>/default is the relative path "default".)
C2_VersionPrecedence ==
    Settled("VERSION")
        => Done("VERSION", IF ProjectVersion # Empty THEN ProjectVersion ELSE GlobalVersion)

C2_Witness ==
    /\ lazy["VERSION"].st = "done"
    /\ ProjectVersion # Empty
    /\ GlobalVersion # Empty
    /\ GlobalVersion # ProjectVersion
    /\ lazy["VERSION"].v = ProjectVersion

\* The toolchain bin directory: installation root / version / bin.
ToolchainBin == push(push(Val("INSTALLTION_PATH"), Val("VERSION")), <<"bin">>)
ToolchainCase ==
    /\ lazy["ENV_PATH"].st = "done"
    /\ Val("VERSION") # Empty
    /\ exists(ToolchainBin)

BinaryBin == push(Val("NPM_PREFIX"), <<"bin">>)
C4_NonEmptyOnlyIfVersionAndBin ==
    /\ (lazy["ENV_PATH"].st = "done" /\ Val("ENV_PATH") # Empty)
          => (Val("VERSION") # Empty /\ exists(ToolchainBin))
    /\ (lazy["BINARY_ENV_PATH"].st = "done" /\ Val("BINARY_ENV_PATH") # Empty)
          => (Val("VERSION") # Empty /\ lazy["NPM_PREFIX"].st = "done" /\ exists(BinaryBin))

C4_Witness ==
    /\ lazy["ENV_PATH"].st = "done"
    /\ Val("VERSION") # Empty
    /\ ~exists(ToolchainBin)
    /\ Val("ENV_PATH") = Empty
    /\ lazy["BINARY_ENV_PATH"].st = "done"
    /\ Val("BINARY_ENV_PATH") # Empty

\* The last line of the child's output that names an existing directory.
DirLines == { i \in 1..Len(npmOut) : npmOut[i].ok /\ is_dir(npmOut[i].s) }
LastDirLine ==
    IF DirLines = {} THEN Empty
    ELSE npmOut[CHOOSE i \in DirLines : \A k \in DirLines : k <= i].s

\* C5: for every sequence of lines the child writes, the probe's result is the
\* last line that names an existing directory, or the empty path if none does.
C5_LastDirectoryLineWins ==
    (child.spawned /\ Settled("NPM_PREFIX")) => Done("NPM_PREFIX", LastDirLine)

\* The part of C5 the code keeps: when every line can be decoded, the result
\* is the last line that names an existing directory.
ProbeLemma ==
    (child.spawned /\ Settled("NPM_PREFIX"))
        => IF \E i \in 1..Len(npmOut) : ~npmOut[i].ok
           THEN lazy["NPM_PREFIX"].st = "poisoned"
           ELSE Done("NPM_PREFIX", LastDirLine)

\* C6: when the child cannot be spawned, the failure is handed to the caller
\* of the probe as an error value (Error::Message or Error::Code): the probe
\* neither degrades to an empty prefix nor takes the thread down.
C6_SpawnFailureIsAnErrorValue ==
    (child.built /\ ~child.spawned)
        => /\ lazy["NPM_PREFIX"].st # "poisoned"
           /\ \A t \in threads : tstate[t] # "panicked"

\* C9: the PATH the probe injects into the child it spawns is a populated
\* toolchain-mode path, never the empty sentinel.
C9_ChildPathPopulated ==
    child.spawned => child.path # Empty

\* C10: whenever the binary-mode path is non-empty, its first entry is the
\* prefix plus bin, where the prefix is a non-empty path that an output line
\* named and that is a directory.
C10_BinaryPathStartsAtPrefix ==
    (lazy["BINARY_ENV_PATH"].st = "done" /\ Val("BINARY_ENV_PATH") # Empty)
        => /\ Val("NPM_PREFIX") # Empty
           /\ \E i \in DirLines : npmOut[i].s = Val("NPM_PREFIX")
           /\ Head(split_paths(Val("BINARY_ENV_PATH"))) = Val("NPM_PREFIX") \o <<"/", "bin">>

\* C7: under any interleaving of first accesses from several threads, the
\* initializer of each static is started at most once, by one thread, exactly
\* once for a static that has been accessed, and a value, once there, never
\* changes.
C7_InitializedOnce ==
    /\ [](\A l \in Statics :
            /\ initCount[l] <= 1
            /\ (lazy[l].st # "uninit") => (initCount[l] = 1)
            /\ Cardinality({t \in threads : OnStack(t, l)}) <= 1)
    /\ [][\A l \in Statics : lazy[l].st = "done" => lazy'[l] = lazy[l]]_vars

\* Two threads at the first access of one static: one runs its initializer,
\* the other waits for it.
C7_Witness ==
    \E t1 \in threads, t2 \in threads :
        /\ t1 # t2
        /\ stack[t1] # <<>>
        /\ stack[t2] # <<>>
        /\ Eval(Top(t2)).k = "need"
        /\ Eval(Top(t2)).d = Top(t1)
        /\ lazy[Top(t1)].st = "running"

====
